---- MODULE Spec2Model ----
(***************************************************************************)
(* Reachability root seeder of libredex/ReachableClasses.cpp.              *)
(*                                                                         *)
(* The program state is the ReferencedState (rstate) of every class,       *)
(* method and field.  The seeders are operators from an rstate map to an   *)
(* rstate map, composed by the orchestrator exactly as the source composes *)
(* them; the member resolver's recursion is also run frame by frame so     *)
(* that its behaviour on every class graph can be observed.                *)
(***************************************************************************)
EXTENDS Integers, Sequences, FiniteSets, TLC

VARIABLES
  world,    \* class graph: [super : class -> type or Null, external : class -> BOOLEAN]
  cfg,      \* configuration record and external artifacts read by the seeder
  rs,       \* rstate of every element
  walk,     \* current frame of blacklist_field / blacklist_method
  touched,  \* elements on which the running resolver call invoked set_root
  visited,  \* classes whose frame the running resolver call has entered
  pre,      \* rstate map when the running operation was entered
  pc        \* the operation last run and the position inside a stepped seeder

vars == <<world, cfg, rs, walk, touched, visited, pre, pc>>

(***************************************************************************)
(* The program under analysis: types, classes and their declared members.  *)
(***************************************************************************)
Null == "null"

\* Types that have a DexClass.  "Ctx" is Landroid/content/Context;.
Classes == {"A", "B", "D", "E", "Ctx"}

\* Types without a DexClass (type_class returns nullptr).
Classless == {"Obj"}

Types == Classes \cup Classless

NoParams == [some |-> FALSE, v |-> <<>>]

SomeParams(s) == [some |-> TRUE, v |-> s]

Member(c, k, n, pub, a, nat, an) ==
  [cls |-> c, kind |-> k, name |-> n, public |-> pub, args |-> a,
   native |-> nat, annos |-> an]

MemberTable ==
     "A.init0"    :> Member("A", "dmethod", "<init>", TRUE, <<>>, FALSE, {})
  @@ "A.init1"    :> Member("A", "dmethod", "<init>", FALSE, <<"View">>, FALSE, {})
  @@ "A.doThing"  :> Member("A", "vmethod", "doThing", TRUE, <<"View">>, FALSE, {})
  @@ "A.doThingS" :> Member("A", "vmethod", "doThing", TRUE, <<"Str">>, FALSE, {"Keep"})
  @@ "A.x"        :> Member("A", "sfield", "x", TRUE, <<>>, FALSE, {})
  @@ "A.y"        :> Member("A", "ifield", "y", FALSE, <<>>, FALSE, {"Keep"})
  @@ "B.init0"    :> Member("B", "dmethod", "<init>", TRUE, <<>>, FALSE, {})
  @@ "B.nat"      :> Member("B", "vmethod", "nat", FALSE, <<>>, TRUE, {})
  @@ "B.x"        :> Member("B", "sfield", "x", FALSE, <<>>, FALSE, {})
  @@ "B.z"        :> Member("B", "sfield", "z", TRUE, <<>>, FALSE, {})
  @@ "D.init0"    :> Member("D", "dmethod", "<init>", TRUE, <<>>, FALSE, {})
  @@ "D.doThing"  :> Member("D", "vmethod", "doThing", TRUE, <<"View">>, TRUE, {})
  @@ "D.x"        :> Member("D", "ifield", "x", TRUE, <<>>, FALSE, {})
  @@ "E.init0"    :> Member("E", "dmethod", "<init>", TRUE, <<>>, FALSE, {})
  @@ "E.x"        :> Member("E", "sfield", "x", TRUE, <<>>, FALSE, {})

Members == DOMAIN MemberTable

Elements == Classes \cup Members

ClassAnnos == [c \in Classes |-> IF c = "D" THEN {"Keep"} ELSE {}]

Interfaces == [c \in Classes |-> IF c = "B" THEN {"Ser"} ELSE {}]

get_sfields(c) == {m \in Members : MemberTable[m].cls = c /\ MemberTable[m].kind = "sfield"}

get_ifields(c) == {m \in Members : MemberTable[m].cls = c /\ MemberTable[m].kind = "ifield"}

get_dmethods(c) == {m \in Members : MemberTable[m].cls = c /\ MemberTable[m].kind = "dmethod"}

get_vmethods(c) == {m \in Members : MemberTable[m].cls = c /\ MemberTable[m].kind = "vmethod"}

is_init(m) == MemberTable[m].name = "<init>"

get_ctors(c) == {m \in get_dmethods(c) : is_init(m)}

DeclaredMembers(c) ==
  get_dmethods(c) \cup get_vmethods(c) \cup get_sfields(c) \cup get_ifields(c)

is_external(c) == world.external[c]

get_super_class(c) == world.super[c]

type_class(t) == IF t \in Classes THEN t ELSE Null

type_class_internal(t) ==
  IF t \in Classes /\ ~is_external(t) THEN t ELSE Null

RECURSIVE SuperChain(_, _)
\* The classes on the superclass chain of type t, t included, following at
\* most n edges.
SuperChain(t, n) ==
  IF n = 0 \/ type_class(t) = Null THEN {}
  ELSE {t} \cup SuperChain(world.super[t], n - 1)

\* The scope holds the classes of the optimized program.
Scope == {c \in Classes : ~is_external(c)}

(***************************************************************************)
(* ReferencedState: the flags of one element and the operations on them.   *)
(***************************************************************************)
NoReason == "None"

Reasons == {"Reflection", "Manifest", "Serializable"}

FreshState ==
  [by_type |-> FALSE, by_string |-> FALSE, by_xml |-> FALSE, is_serde |-> FALSE,
   root |-> NoReason, keep_count |-> 0, allow_obf |-> TRUE]

FreshAll == [e \in Elements |-> FreshState]

ref_by_type(s) == [s EXCEPT !.by_type = TRUE]

ref_by_string(s) == [s EXCEPT !.by_string = TRUE]

set_referenced_by_resource_xml(s) == [s EXCEPT !.by_xml = TRUE]

unset_referenced_by_resource_xml(s) == [s EXCEPT !.by_xml = FALSE]

set_is_serde(s) == [s EXCEPT !.is_serde = TRUE]

increment_keep_count(s) == [s EXCEPT !.keep_count = @ + 1]

unset_allowobfuscation(s) == [s EXCEPT !.allow_obf = FALSE]

\* The state records the strongest reason seen, a max of keep-reason
\* priorities: a call with the recorded reason or a weaker one keeps the
\* recorded reason.  Manifest is the strongest (every constructor of a
\* manifest root carries Manifest, whatever else roots it).
set_root(s, reason) ==
  LET priority == [k \in Reasons \cup {NoReason} |->
                     CASE k = NoReason -> 0
                       [] k = "Reflection" -> 1
                       [] k = "Serializable" -> 2
                       [] k = "Manifest" -> 3]
  IN [s EXCEPT !.root = IF priority[reason] > priority[@] THEN reason ELSE @]

\* The loops that apply one rstate operation to every element of S.
MarkByType(r, S) == [e \in DOMAIN r |-> IF e \in S THEN ref_by_type(r[e]) ELSE r[e]]

MarkByString(r, S) == [e \in DOMAIN r |-> IF e \in S THEN ref_by_string(r[e]) ELSE r[e]]

MarkByXml(r, S) ==
  [e \in DOMAIN r |-> IF e \in S THEN set_referenced_by_resource_xml(r[e]) ELSE r[e]]

UnmarkByXml(r, S) ==
  [e \in DOMAIN r |-> IF e \in S THEN unset_referenced_by_resource_xml(r[e]) ELSE r[e]]

MarkSerde(r, S) == [e \in DOMAIN r |-> IF e \in S THEN set_is_serde(r[e]) ELSE r[e]]

RootAll(r, S, reason) ==
  [e \in DOMAIN r |-> IF e \in S THEN set_root(r[e], reason) ELSE r[e]]

(***************************************************************************)
(* Member resolver: blacklist_field / blacklist_method.                    *)
(***************************************************************************)
\* DexItemIter<DexField*>::iterate without its is_external return.
DexItemIter_fields_NoExternalCheck(cls) == get_sfields(cls) \cup get_ifields(cls)

\* The members DexItemIter<DexField*>::iterate yields for cls.
DexItemIter_fields(cls) ==
  IF is_external(cls) THEN {} ELSE get_sfields(cls) \cup get_ifields(cls)

DexItemIter_methods(cls) ==
  IF is_external(cls) THEN {} ELSE get_dmethods(cls) \cup get_vmethods(cls)

\* The yield lambda of blacklist_field without its visibility test.
field_yield_NoPublicCheck(t, name, declared) == MemberTable[t].name = name

\* The yield lambda of blacklist_field reaches set_root on t.
field_yield(t, name, declared) ==
  /\ MemberTable[t].name = name
  /\ ~(~MemberTable[t].public /\ ~declared)

\* The yield lambda of blacklist_method reaches set_root on t.
method_yield(t, name, params, declared) ==
  /\ MemberTable[t].name = name
  /\ ~(params.some /\ MemberTable[t].args # params.v)
  /\ ~(~MemberTable[t].public /\ ~declared)

\* The members one activation of the resolver roots.
FrameMatches(kind, cls, name, params, declared) ==
  IF kind = "field"
    THEN {t \in DexItemIter_fields(cls) : field_yield(t, name, declared)}
    ELSE {t \in DexItemIter_methods(cls) : method_yield(t, name, params, declared)}

\* The type the activation recurses into, Null when it returns.
FrameNext(cls, declared) ==
  IF ~declared /\ get_super_class(cls) # Null THEN get_super_class(cls) ELSE Null

\* One activation of blacklist_field / blacklist_method on `type`:
\* the rstate map it leaves and the type it recurses into.
resolver_frame(r, kind, type, name, params, declared) ==
  LET cls == type_class(type) IN
  IF cls = Null
    THEN [rs |-> r, hit |-> {}, next |-> Null]
    ELSE LET hit == FrameMatches(kind, cls, name, params, declared) IN
         [rs |-> RootAll(r, hit, "Reflection"), hit |-> hit,
          next |-> FrameNext(cls, declared)]

RECURSIVE resolver_run(_, _, _, _, _, _)
resolver_run(r, kind, type, name, params, declared) ==
  LET f == resolver_frame(r, kind, type, name, params, declared) IN
  IF f.next = Null THEN f.rs
  ELSE resolver_run(f.rs, kind, f.next, name, params, declared)

blacklist_field(r, type, name, declared) ==
  resolver_run(r, "field", type, name, NoParams, declared)

blacklist_method(r, type, name, params, declared) ==
  resolver_run(r, "method", type, name, params, declared)

(***************************************************************************)
(* Class graphs.                                                           *)
(***************************************************************************)
BaseSuper == [c \in Classes |->
  CASE c = "Ctx" -> Null
    [] c = "A" -> "Ctx"
    [] c = "B" -> "A"
    [] c = "D" -> "Obj"
    [] c = "E" -> "Obj"]

BaseExternal == [c \in Classes |-> c \in {"Ctx", "E"}]

BaseWorld == [super |-> BaseSuper, external |-> BaseExternal]

\* Graphs for the member resolver: every superclass edge of A, B and E,
\* cycles included, and A external or not.
WalkWorlds ==
  {[super |-> [BaseSuper EXCEPT !["A"] = sa, !["B"] = sb, !["E"] = se],
    external |-> [BaseExternal EXCEPT !["A"] = xa]] :
      sa \in {Null, "B", "Ctx"},
      sb \in {"A", "E", "Obj"},
      se \in {"A", "D"},
      xa \in BOOLEAN}

IdleWalk ==
  [pc |-> "idle", kind |-> "field", start |-> Null, cur |-> Null,
   name |-> "x", params |-> NoParams, declared |-> TRUE, calls |-> 0]

NoCfg == [none |-> TRUE]

NoTag ==
  [tag |-> "none", classname |-> Null, is_exported |-> FALSE,
   has_intent_filters |-> FALSE, authority_classes |-> <<>>]

IdlePc == [op |-> "none", n |-> 0, i |-> 0, tag |-> NoTag, done |-> {}]

(***************************************************************************)
(* SpecWalk: the member resolver, one activation per step.                 *)
(***************************************************************************)
MaxCalls == 2

FieldNames == {"x", "y"}

MethodNames == {"<init>", "doThing"}

ParamChoices == {NoParams, SomeParams(<<"View">>)}

InitWalk ==
  /\ world \in WalkWorlds
  /\ cfg = NoCfg
  /\ rs = FreshAll
  /\ walk = IdleWalk
  /\ touched = {}
  /\ visited = {}
  /\ pre = FreshAll
  /\ pc = IdlePc

\* The caller enters blacklist_field / blacklist_method.
Enter(kind, type, name, params, declared) ==
  /\ walk.pc = "idle"
  /\ walk.calls < MaxCalls
  /\ walk' = [pc |-> "run", kind |-> kind, start |-> type, cur |-> type,
              name |-> name, params |-> params, declared |-> declared,
              calls |-> walk.calls + 1]
  /\ touched' = {}
  /\ visited' = {}
  /\ pre' = rs
  /\ UNCHANGED <<world, cfg, rs, pc>>

CallBlacklistField ==
  \E type \in Types, name \in FieldNames, declared \in BOOLEAN :
    Enter("field", type, name, NoParams, declared)

CallBlacklistMethod ==
  \E type \in Types, name \in MethodNames, params \in ParamChoices,
     declared \in BOOLEAN :
    Enter("method", type, name, params, declared)

\* One activation; the last one leaves the call at its return point.
Frame ==
  /\ walk.pc = "run"
  /\ LET f == resolver_frame(rs, walk.kind, walk.cur, walk.name, walk.params,
                             walk.declared) IN
     /\ rs' = f.rs
     /\ touched' = touched \cup f.hit
     /\ visited' = visited \cup ({type_class(walk.cur)} \ {Null})
     /\ walk' = IF f.next = Null
                  THEN [walk EXCEPT !.pc = "ret"]
                  ELSE [walk EXCEPT !.cur = f.next]
  /\ UNCHANGED <<world, cfg, pre, pc>>

\* Control is back in the caller.
Return ==
  /\ walk.pc = "ret"
  /\ walk' = [IdleWalk EXCEPT !.calls = walk.calls]
  /\ touched' = {}
  /\ visited' = {}
  /\ pre' = rs
  /\ UNCHANGED <<world, cfg, rs, pc>>

NextWalk == CallBlacklistField \/ CallBlacklistMethod \/ Frame \/ Return

SpecWalk == InitWalk /\ [][NextWalk]_vars

(***************************************************************************)
(* Properties of the member resolver (SpecWalk).                           *)
(***************************************************************************)
FieldsOf(c) == {m \in Members : MemberTable[m].cls = c /\ MemberTable[m].kind \in {"sfield", "ifield"}}

Returned(kind) == walk.pc = "ret" /\ walk.kind = kind

\* Everything outside S is as it was when the call was entered, and every
\* element of S has become a Reflection root and is otherwise as it was.
OnlyRooted(S) ==
  \A e \in Elements :
    IF e \in S
      THEN /\ rs[e].root = "Reflection"
           /\ [rs[e] EXCEPT !.root = pre[e].root] = pre[e]
      ELSE rs[e] = pre[e]

C5_StatedFields ==
  IF type_class(walk.start) = Null THEN {}
  ELSE IF walk.declared
    THEN {f \in FieldsOf(walk.start) : MemberTable[f].name = walk.name}
    ELSE {f \in Members :
            /\ MemberTable[f].cls \in SuperChain(walk.start, Cardinality(Classes))
            /\ MemberTable[f].kind \in {"sfield", "ifield"}
            /\ MemberTable[f].name = walk.name
            /\ MemberTable[f].public}

C5_InternalFields == {f \in C5_StatedFields : ~world.external[MemberTable[f].cls]}

\* C5 as stated: a returned blacklist_field(origin, C, n, declared_only) has
\* rooted exactly the fields named n declared in C (declared_only), or exactly
\* the public fields named n declared in C or on its superclass chain
\* (otherwise), external classes included.
C5_Original ==
  Returned("field") => touched = C5_StatedFields

\* C5 amended: a returned blacklist_field(origin, C, n, declared_only) has
\* rooted, with reason Reflection, exactly the fields named n declared in C
\* when C is not external (declared_only), or exactly the public fields named
\* n declared in the non-external classes among C and its superclass chain
\* (otherwise); no other element is changed.
C5_DeclaredVsInherited ==
  Returned("field") => (touched = C5_InternalFields /\ OnlyRooted(C5_InternalFields))

\* getField("x") on B, whose own x is private: the inherited public A.x is
\* the one field rooted.
C5_Witness ==
  /\ Returned("field")
  /\ ~walk.declared
  /\ walk.start = "B"
  /\ walk.name = "x"
  /\ touched = {"A.x"}
  /\ rs["A.x"].root = "Reflection"
  /\ rs["B.x"].root = NoReason

AtExternalFrame ==
  /\ walk.pc = "run"
  /\ type_class(walk.cur) # Null
  /\ world.external[walk.cur]

\* C7 as stated: an activation on an external class returns immediately; it
\* mutates nothing and the walk does not continue into the superclass.
C7_Original ==
  [][AtExternalFrame => (rs' = rs /\ walk'.pc = "ret")]_vars

\* C7 amended: an activation on an external class mutates no element (so no
\* member of an external class is ever rooted by the resolver), and the walk
\* still goes on to that class's superclass when declared_only is false and
\* the superclass is not null; it returns otherwise.
C7_ExternalUntouched ==
  /\ [](\A e \in touched : ~world.external[MemberTable[e].cls])
  /\ [][AtExternalFrame =>
          /\ rs' = rs
          /\ touched' = touched
          /\ IF ~walk.declared /\ world.super[walk.cur] # Null
               THEN walk'.pc = "run" /\ walk'.cur = world.super[walk.cur]
               ELSE walk'.pc = "ret"]_vars

\* The walk went through an external class and then rooted a member of that
\* class's (non-external) superclass.
C7_Witness ==
  /\ walk.pc = "ret"
  /\ \E x \in visited :
       /\ world.external[x]
       /\ \E e \in touched : MemberTable[e].cls = world.super[x]
       /\ \A e \in DeclaredMembers(x) : rs[e] = FreshState

\* C8: the super-walk stops when it reaches a class it has already visited:
\* no activation is ever entered on a class the same call has visited.
C8_StopsAtRevisit ==
  walk.pc = "run" => type_class(walk.cur) \notin visited

(***************************************************************************)
(* Names: DexType::get_type and the strings the configuration matches.     *)
(***************************************************************************)
\* DexType::get_type(name): the type of that name, Null when there is none.
get_type(name) == IF name \in Types \cup {"Keep", "View", "Str", "Ser"} THEN name ELSE Null

\* The descriptor of each class, one character per element.
ClassStr == [c \in Classes |->
  CASE c = "A" -> <<"p", "/", "A">>
    [] c = "B" -> <<"q", "/", "B">>
    [] c = "D" -> <<"p", "/", "D">>
    [] c = "E" -> <<"e", "/", "E">>
    [] c = "Ctx" -> <<"c", "/", "C">>]

\* The name of a member as a character sequence (names are one token long
\* except the constructor name).
NameStr(n) == IF n = "<init>" THEN <<"<", "i", ">">> ELSE <<n>>

\* std::string::find: the first position (from 1) at which needle occurs in
\* hay, 0 for npos.
find(hay, needle) ==
  LET n == Len(needle)
      P == {i \in 1..(Len(hay) - n + 1) : SubSeq(hay, i, i + n - 1) = needle}
  IN IF Len(hay) < n THEN 0
     ELSE IF P = {} THEN 0
     ELSE CHOOSE i \in P : \A j \in P : i <= j

\* std::string::substr(pos) with pos counted from 1.
substr(str, pos) == SubSeq(str, pos, Len(str))

starts_with(str, prefix) ==
  Len(prefix) <= Len(str) /\ SubSeq(str, 1, Len(prefix)) = prefix

(***************************************************************************)
(* Type hierarchy queries.                                                 *)
(***************************************************************************)
\* t is a proper ancestor of class c.
IsAncestor(t, c) == t \in SuperChain(world.super[c], Cardinality(Classes))

\* get_all_children over build_type_hierarchy(scope): the transitive
\* subclasses of t among the classes of the scope.
get_all_children(t) == {c \in Scope : IsAncestor(t, c)}

\* get_all_implementors(scope, intf): the classes of the scope that implement
\* intf themselves or through a superclass.
get_all_implementors(intf) ==
  {c \in Scope : \E a \in SuperChain(c, Cardinality(Classes)) : intf \in Interfaces[a]}

(***************************************************************************)
(* Seeders.                                                                *)
(***************************************************************************)
\* mark_reachable_by_classname(DexClass*).
mark_reachable_by_classname(r, dclass) ==
  IF dclass = Null THEN r
  ELSE MarkByString(r, {dclass} \cup DeclaredMembers(dclass))

\* mark_reachable_by_classname(DexType*).
mark_reachable_by_classname_type(r, dtype) ==
  mark_reachable_by_classname(r, type_class_internal(dtype))

mark_reachable_by_string(r, method) ==
  LET cls == type_class_internal(MemberTable[method].cls) IN
  MarkByString(r, {method} \cup ({cls} \ {Null}))

\* A variant that accepts any single parameter, whatever its type.
matches_onclick_method_AnyArg(dmethod, names_to_keep) ==
  LET args_list == MemberTable[dmethod].args IN
  IF Len(args_list) = 1
    THEN MemberTable[dmethod].name \in names_to_keep
    ELSE FALSE

matches_onclick_method(dmethod, names_to_keep) ==
  LET args_list == MemberTable[dmethod].args IN
  IF Len(args_list) = 1
    THEN IF args_list[1] = "View"
           THEN MemberTable[dmethod].name \in names_to_keep
           ELSE FALSE
    ELSE FALSE

mark_onclick_attributes_reachable(r, onclick_attribute_values) ==
  IF Cardinality(onclick_attribute_values) = 0 THEN r
  ELSE MarkByXml(r,
         {m \in Members :
            /\ MemberTable[m].cls \in get_all_children("Ctx")
            /\ ~is_external(MemberTable[m].cls)
            /\ m \in get_vmethods(MemberTable[m].cls)
            /\ matches_onclick_method(m, onclick_attribute_values)})

maybe_class_from_string(classname) ==
  LET dtype == get_type(classname) IN
  IF dtype = Null THEN Null ELSE type_class(dtype)

\* mark_manifest_root without the constructor loop.
mark_manifest_root_NoCtors(r, classname) ==
  LET dclass == maybe_class_from_string(classname) IN
  IF dclass = Null THEN r
  ELSE [r EXCEPT ![dclass] = increment_keep_count(set_root(@, "Manifest"))]

mark_manifest_root(r, classname) ==
  LET dclass == maybe_class_from_string(classname) IN
  IF dclass = Null THEN r
  ELSE LET r1 == [r EXCEPT ![dclass] = increment_keep_count(set_root(@, "Manifest"))]
       IN RootAll(r1, get_ctors(dclass), "Manifest")

RECURSIVE mark_manifest_roots(_, _)
\* A loop calling mark_manifest_root on each name of a list, in order.
mark_manifest_roots(r, names) ==
  IF names = <<>> THEN r
  ELSE mark_manifest_roots(mark_manifest_root(r, Head(names)), Tail(names))

\* The body of the component_tags loop for one tag with the Activity test
\* taken as always true.
manifest_tag_NoPrune(r, tag, prune) ==
  mark_manifest_roots(r, <<tag.classname>> \o tag.authority_classes)

\* The body of the component_tags loop without the authority_classes loop.
manifest_tag_NoAuthorities(r, tag, prune) ==
  CASE tag.tag \in {"Activity", "ActivityAlias"} ->
         IF tag.is_exported \/ tag.has_intent_filters \/ tag.tag \notin prune
           THEN mark_manifest_root(r, tag.classname)
           ELSE LET dclass == maybe_class_from_string(tag.classname) IN
                IF dclass # Null
                  THEN [r EXCEPT ![dclass] =
                          unset_allowobfuscation(increment_keep_count(@))]
                  ELSE r
    [] tag.tag \in {"Receiver", "Service", "Provider"} ->
         mark_manifest_root(r, tag.classname)

\* The body of the component_tags loop of analyze_reachable_from_manifest
\* for one tag.
manifest_tag(r, tag, prune) ==
  CASE tag.tag \in {"Activity", "ActivityAlias"} ->
         IF tag.is_exported \/ tag.has_intent_filters \/ tag.tag \notin prune
           THEN mark_manifest_root(r, tag.classname)
           ELSE LET dclass == maybe_class_from_string(tag.classname) IN
                IF dclass # Null
                  THEN [r EXCEPT ![dclass] =
                          unset_allowobfuscation(increment_keep_count(@))]
                  ELSE r
    [] tag.tag \in {"Receiver", "Service"} ->
         mark_manifest_root(r, tag.classname)
    [] tag.tag = "Provider" ->
         mark_manifest_roots(mark_manifest_root(r, tag.classname),
                             tag.authority_classes)

RECURSIVE manifest_tags(_, _, _)
manifest_tags(r, tags, prune) ==
  IF tags = <<>> THEN r
  ELSE manifest_tags(manifest_tag(r, Head(tags), prune), Tail(tags), prune)

\* The two loops before the component tags.
manifest_app_classes(r, info) ==
  mark_manifest_roots(mark_manifest_roots(r, info.application_classes),
                      info.instrumentation_classes)

\* The component kinds a prune_unexported_components string may name.
string_to_tag ==
  [s \in {"activity", "activity-alias"} |->
     IF s = "activity" THEN "Activity" ELSE "ActivityAlias"]

\* string_to_tag.at(s) throws std::out_of_range for a string that is not a
\* key of the map.
prune_throws(prune_unexported_components_str) ==
  \E s \in prune_unexported_components_str : s \notin DOMAIN string_to_tag

\* The set of component kinds built from the configured strings.
prune_unexported_components(prune_unexported_components_str) ==
  {string_to_tag[s] : s \in prune_unexported_components_str \cap DOMAIN string_to_tag}

\* When the conversion of the prune strings throws, nothing has been marked
\* yet and the state is returned as it was; the callers stop on
\* prune_throws.
analyze_reachable_from_manifest(r, info, prune_unexported_components_str) ==
  IF prune_throws(prune_unexported_components_str) THEN r
  ELSE manifest_tags(manifest_app_classes(r, info), info.component_tags,
                     prune_unexported_components(prune_unexported_components_str))

\* mark_reachable_by_xml leaving out a class that is already a root.
mark_reachable_by_xml_SkipRooted(r, classname) ==
  LET dclass == maybe_class_from_string(classname) IN
  IF dclass = Null THEN r
  ELSE IF r[dclass].root # NoReason THEN r
  ELSE MarkByXml(r, {dclass} \cup get_ctors(dclass))

mark_reachable_by_xml(r, classname) ==
  LET dclass == maybe_class_from_string(classname) IN
  IF dclass = Null THEN r
  ELSE MarkByXml(r, {dclass} \cup get_ctors(dclass))

RECURSIVE mark_layout_classes(_, _)
\* The loop over layout_classes.
mark_layout_classes(r, names) ==
  IF names = {} THEN r
  ELSE LET n == CHOOSE x \in names : TRUE IN
       mark_layout_classes(mark_reachable_by_xml(r, n), names \ {n})

analyze_reachable_from_xml_layouts(r, layout) ==
  mark_onclick_attributes_reachable(mark_layout_classes(r, layout.classes),
                                    layout.onclick)

\* A variant that flips is_serde on the children instead of setting it.
initialize_reachable_for_json_serde_Toggle(r, supercls_names) ==
  LET serde_superclses == {get_type(n) : n \in supercls_names} \ {Null}
      children == UNION {get_all_children(t) : t \in serde_superclses} IN
  [e \in DOMAIN r |->
     IF e \in children THEN [r[e] EXCEPT !.is_serde = ~@] ELSE r[e]]

initialize_reachable_for_json_serde(r, supercls_names) ==
  LET serde_superclses == {get_type(n) : n \in supercls_names} \ {Null} IN
  IF Cardinality(serde_superclses) = 0 THEN r
  ELSE MarkSerde(r, UNION {get_all_children(t) : t \in serde_superclses})

anno_set_contains(annos, keep_annotations) == annos \cap keep_annotations # {}

keep_annotated_classes(r, keep_annotations) ==
  MarkByType(r,
    {c \in Scope : anno_set_contains(ClassAnnos[c], keep_annotations)}
    \cup {m \in Members :
            /\ MemberTable[m].cls \in Scope
            /\ anno_set_contains(MemberTable[m].annos, keep_annotations)})

\* The entry keep_class_members applies to cls: the first one that contains
\* the class name (the loop over the entries breaks there), 0 when none does.
first_entry(name, keep_class_mems) ==
  LET P == {i \in 1..Len(keep_class_mems) : find(keep_class_mems[i], name) # 0}
  IN IF P = {} THEN 0 ELSE CHOOSE i \in P : \A j \in P : i <= j

\* The static fields of cls that keep_class_members marks.
kept_sfields(cls, keep_class_mems) ==
  LET name == ClassStr[cls]
      i == first_entry(name, keep_class_mems)
  IN IF i = 0 THEN {}
     ELSE LET class_mem_str == keep_class_mems[i]
              pos == find(class_mem_str, name)
              rem_str == substr(class_mem_str, pos + Len(name))
          IN {f \in get_sfields(cls) : find(rem_str, NameStr(MemberTable[f].name)) # 0}

keep_class_members(r, keep_class_mems) ==
  MarkByType(r,
    UNION {IF kept_sfields(cls, keep_class_mems) = {} THEN {}
           ELSE kept_sfields(cls, keep_class_mems) \cup {cls} : cls \in Scope})

keep_methods(r, ms) ==
  MarkByString(r,
    {m \in Members :
       /\ MemberTable[m].cls \in Scope
       /\ MemberTable[m].kind \in {"dmethod", "vmethod"}
       /\ MemberTable[m].name \in ms})

RECURSIVE in_reflected_pkg(_, _)
in_reflected_pkg(dclass, reflected_pkg_classes) ==
  IF dclass = Null THEN FALSE
  ELSE IF dclass \in reflected_pkg_classes THEN TRUE
  ELSE in_reflected_pkg(type_class_internal(world.super[dclass]),
                        reflected_pkg_classes)

RECURSIVE mark_classes_by_classname(_, _)
\* A loop calling mark_reachable_by_classname on each class of a set.
mark_classes_by_classname(r, S) ==
  IF S = {} THEN r
  ELSE LET c == CHOOSE x \in S : TRUE IN
       mark_classes_by_classname(mark_reachable_by_classname(r, c), S \ {c})

\* The two loops over the scope that follow analyze_reflection.
mark_reflected_packages(r, reflected_package_names) ==
  LET reflected_package_classes ==
        {c \in Scope : \E i \in 1..Len(reflected_package_names) :
                         starts_with(ClassStr[c], reflected_package_names[i])}
  IN mark_classes_by_classname(r,
       {x \in Scope : in_reflected_pkg(x, reflected_package_classes)})

\* A variant that roots every constructor of the superclass, whatever its
\* parameters.
analyze_serializable_AnyCtor(r) ==
  LET children == get_all_implementors("Ser") IN
  RootAll(r,
    {meth \in Members :
       \E child \in children :
         LET child_super_type == world.super[child]
             child_supercls == type_class(child_super_type)
         IN /\ child_supercls # Null
            /\ ~is_external(child_supercls)
            /\ child_super_type \notin children
            /\ meth \in get_dmethods(child_supercls)
            /\ is_init(meth)},
    "Serializable")

analyze_serializable(r) ==
  LET children == get_all_implementors("Ser") IN
  RootAll(r,
    {meth \in Members :
       \E child \in children :
         LET child_super_type == world.super[child]
             child_supercls == type_class(child_super_type)
         IN /\ child_supercls # Null
            /\ ~is_external(child_supercls)
            /\ child_super_type \notin children
            /\ meth \in get_dmethods(child_supercls)
            /\ is_init(meth)
            /\ Len(MemberTable[meth].args) = 0},
    "Serializable")

RECURSIVE mark_native_methods(_, _)
\* The walk::methods callback applied to each native method.
mark_native_methods(r, meths) ==
  IF meths = {} THEN r
  ELSE LET m == CHOOSE x \in meths : TRUE IN
       mark_native_methods(mark_reachable_by_string(r, m), meths \ {m})

recompute_classes_reachable_from_code(r) ==
  mark_native_methods(r,
    {m \in Members :
       /\ MemberTable[m].cls \in Scope
       /\ MemberTable[m].kind \in {"dmethod", "vmethod"}
       /\ MemberTable[m].native})

RECURSIVE mark_native_lib_classes(_, _)
\* The loop over get_native_classes(apk_dir).
mark_native_lib_classes(r, names) ==
  IF names = {} THEN r
  ELSE LET n == CHOOSE x \in names : TRUE
           type == get_type(n)
       IN mark_native_lib_classes(
            IF type = Null THEN r ELSE mark_reachable_by_classname_type(r, type),
            names \ {n})

(***************************************************************************)
(* Reflection scanner.                                                     *)
(***************************************************************************)
JAVA_LANG_CLASS == "Ljava/lang/Class;"

ATOMIC_INT_FIELD_UPDATER == "AtomicIntegerFieldUpdater;"

ATOMIC_LONG_FIELD_UPDATER == "AtomicLongFieldUpdater;"

ATOMIC_REF_FIELD_UPDATER == "AtomicReferenceFieldUpdater;"

NoRefl == "NO_ENTRY"

\* The refls table: callee class and method name to ReflectionType.
refls(method_class_name, method_name) ==
  CASE method_class_name = JAVA_LANG_CLASS ->
         (CASE method_name = "getField" -> "GET_FIELD"
            [] method_name = "getDeclaredField" -> "GET_DECLARED_FIELD"
            [] method_name = "getMethod" -> "GET_METHOD"
            [] method_name = "getDeclaredMethod" -> "GET_DECLARED_METHOD"
            [] method_name \in {"getConstructor", "getConstructors"} -> "GET_CONSTRUCTOR"
            [] method_name \in {"getDeclaredConstructor", "getDeclaredConstructors"} ->
                 "GET_DECLARED_CONSTRUCTOR"
            [] OTHER -> NoRefl)
    [] method_class_name = ATOMIC_INT_FIELD_UPDATER ->
         IF method_name = "newUpdater" THEN "INT_UPDATER" ELSE NoRefl
    [] method_class_name = ATOMIC_LONG_FIELD_UPDATER ->
         IF method_name = "newUpdater" THEN "LONG_UPDATER" ELSE NoRefl
    [] method_class_name = ATOMIC_REF_FIELD_UPDATER ->
         IF method_name = "newUpdater" THEN "REF_UPDATER" ELSE NoRefl
    [] OTHER -> NoRefl

\* An abstract object of the reflection analysis; kind "NONE" when the
\* analysis has no object for the register.
AbsObj(kind, type, str) == [obj_kind |-> kind, dex_type |-> type, dex_string |-> str]

AbsNone == AbsObj("NONE", Null, Null)

AbsClass(type) == AbsObj("CLASS", type, Null)

AbsString(str) == AbsObj("STRING", Null, str)

\* An invoke instruction: its callee, the abstract objects of src(0..2) and
\* the parameter types the analysis infers for the call.
Site(cls, name, s0, s1, s2, params) ==
  [callee_class |-> cls, callee_name |-> name, src |-> <<s0, s1, s2>>,
   params |-> params]

\* A variant that reads the name from src(1) for every reflection type.
dex_string_lookup_FixedIdx(refl_type, insn) ==
  IF refl_type \in {"GET_CONSTRUCTOR", "GET_DECLARED_CONSTRUCTOR"} THEN "<init>"
  ELSE LET arg_str == insn.src[2]
       IN IF arg_str.obj_kind = "STRING" THEN arg_str.dex_string ELSE Null

dex_string_lookup(refl_type, insn) ==
  IF refl_type \in {"GET_CONSTRUCTOR", "GET_DECLARED_CONSTRUCTOR"} THEN "<init>"
  ELSE LET arg_str_idx == IF refl_type = "REF_UPDATER" THEN 2 ELSE 1
           arg_str == insn.src[arg_str_idx + 1]
       IN IF arg_str.obj_kind = "STRING" THEN arg_str.dex_string ELSE Null

\* The body of the instruction loop of analyze_reflection for one invoke.
reflection_site(r, insn) ==
  LET refl_type == refls(insn.callee_class, insn.callee_name)
      arg_cls == insn.src[1]
      arg_str_value == dex_string_lookup(refl_type, insn)
      param_types ==
        IF refl_type \in {"GET_METHOD", "GET_CONSTRUCTOR", "GET_DECLARED_METHOD",
                          "GET_DECLARED_CONSTRUCTOR"}
          THEN insn.params ELSE NoParams
  IN IF refl_type = NoRefl THEN r
     ELSE IF arg_cls.obj_kind # "CLASS" THEN r
     ELSE IF arg_str_value = Null THEN r
     ELSE CASE refl_type = "GET_FIELD" ->
                 blacklist_field(r, arg_cls.dex_type, arg_str_value, FALSE)
            [] refl_type = "GET_DECLARED_FIELD" ->
                 blacklist_field(r, arg_cls.dex_type, arg_str_value, TRUE)
            [] refl_type \in {"GET_METHOD", "GET_CONSTRUCTOR"} ->
                 blacklist_method(r, arg_cls.dex_type, arg_str_value, param_types, FALSE)
            [] refl_type \in {"GET_DECLARED_METHOD", "GET_DECLARED_CONSTRUCTOR"} ->
                 blacklist_method(r, arg_cls.dex_type, arg_str_value, param_types, TRUE)
            [] refl_type \in {"INT_UPDATER", "LONG_UPDATER", "REF_UPDATER"} ->
                 blacklist_field(r, arg_cls.dex_type, arg_str_value, TRUE)

RECURSIVE analyze_reflection(_, _)
analyze_reflection(r, insns) ==
  IF insns = <<>> THEN r
  ELSE analyze_reflection(reflection_site(r, Head(insns)), Tail(insns))

(***************************************************************************)
(* Orchestrator.                                                           *)
(***************************************************************************)
\* The annotation set init_permanently_reachable_classes builds: the given
\* types and every configured name that resolves to a type.
annotation_types(c) ==
  c.no_optimizations_anno \cup ({get_type(annostr) : annostr \in c.keep_annotations} \ {Null})

step_annotations(r, c) == keep_annotated_classes(r, annotation_types(c))

step_keeps(r, c) == keep_methods(keep_class_members(r, c.keep_class_members), c.keep_methods)

step_manifest(r, c) ==
  IF c.apk_dir /\ c.compute_xml_reachability
    THEN analyze_reachable_from_manifest(r, c.manifest, c.prune_unexported_components)
    ELSE r

step_layouts(r, c) ==
  IF c.apk_dir /\ c.compute_xml_reachability
    THEN analyze_reachable_from_xml_layouts(r, c.layout)
    ELSE r

step_native_libs(r, c) ==
  IF c.apk_dir /\ c.analyze_native_lib_reachability
    THEN mark_native_lib_classes(r, c.native_classes)
    ELSE r

step_reflection(r, c) == analyze_reflection(r, c.code)

step_packages(r, c) == mark_reflected_packages(r, c.keep_packages)

step_serializable(r, c) == analyze_serializable(r)

step_native_methods(r, c) == recompute_classes_reachable_from_code(r)

step_serde(r, c) == initialize_reachable_for_json_serde(r, c.json_serde_supercls)

\* analyze_reachable_from_manifest is called and throws: the exception leaves
\* init_permanently_reachable_classes and init_reachable_classes.
manifest_throws(c) ==
  c.apk_dir /\ c.compute_xml_reachability /\ prune_throws(c.prune_unexported_components)

init_permanently_reachable_classes(r, c) ==
  LET r1 == step_annotations(r, c)
      r2 == step_keeps(r1, c)
      r3 == step_manifest(r2, c)
      r4 == step_layouts(r3, c)
      r5 == step_native_libs(r4, c)
      r6 == step_reflection(r5, c)
      r7 == step_packages(r6, c)
  IN IF manifest_throws(c) THEN r2 ELSE step_serializable(r7, c)

init_reachable_classes(r, c) ==
  IF manifest_throws(c) THEN init_permanently_reachable_classes(r, c)
  ELSE step_serde(step_native_methods(init_permanently_reachable_classes(r, c), c), c)

RECURSIVE SeqOf(_)
\* The elements of a finite set in some fixed order.
SeqOf(S) ==
  IF S = {} THEN <<>>
  ELSE LET x == CHOOSE y \in S : TRUE IN <<x>> \o SeqOf(S \ {x})

\* A variant whose task also clears the flag on the class's superclass.
reset_task_TouchesSuper(cls) ==
  <<cls>> \o SeqOf(get_dmethods(cls)) \o SeqOf(get_vmethods(cls))
    \o SeqOf(get_ifields(cls)) \o SeqOf(get_sfields(cls))
    \o (IF type_class(world.super[cls]) = Null THEN <<>> ELSE <<world.super[cls]>>)

\* The elements the reset task of cls writes, in the order of the lambda.
reset_task(cls) ==
  <<cls>> \o SeqOf(get_dmethods(cls)) \o SeqOf(get_vmethods(cls))
    \o SeqOf(get_ifields(cls)) \o SeqOf(get_sfields(cls))

\* A variant that replaces the whole rstate of the element.
reset_element_WholeState(r, e) == [r EXCEPT ![e] = FreshState]

\* One unset_referenced_by_resource_xml call of the reset lambda.
reset_element(r, e) == [r EXCEPT ![e] = unset_referenced_by_resource_xml(@)]

\* No task of the reset pass has written yet.
TasksAtStart ==
  [pos |-> [c \in Classes |-> 1],
   loaded |-> [c \in Classes |-> FALSE],
   tmp |-> [c \in Classes |-> FreshState]]

\* The reset pass of recompute_reachable_from_xml_layouts.
reset_xml(r) ==
  UnmarkByXml(r, UNION {{cls} \cup DeclaredMembers(cls) : cls \in Scope})

recompute_reachable_from_xml_layouts(r, layout) ==
  analyze_reachable_from_xml_layouts(reset_xml(r), layout)

(***************************************************************************)
(* Inputs: configurations, manifests, layouts and method bodies.           *)
(***************************************************************************)
Tag(kind, classname, exported, filters, authorities) ==
  [tag |-> kind, classname |-> classname, is_exported |-> exported,
   has_intent_filters |-> filters, authority_classes |-> authorities]

ManifestInfo(apps, instrs, tags) ==
  [application_classes |-> apps, instrumentation_classes |-> instrs,
   component_tags |-> tags]

Manifests ==
  { ManifestInfo(<<>>, <<>>, <<>>),
    ManifestInfo(<<"A">>, <<"Zz">>,
                 <<Tag("Activity", "D", FALSE, FALSE, <<>>),
                   Tag("Provider", "B", FALSE, FALSE, <<"B", "E">>)>>),
    ManifestInfo(<<>>, <<"D">>,
                 <<Tag("Activity", "A", FALSE, TRUE, <<>>),
                   Tag("ActivityAlias", "B", FALSE, FALSE, <<>>),
                   Tag("Service", "Zz", TRUE, FALSE, <<>>)>>) }

Layout(classes, onclick) == [classes |-> classes, onclick |-> onclick]

Layouts ==
  { Layout({}, {}),
    Layout({"E", "D"}, {"doThing"}),
    Layout({"A", "Zz"}, {}) }

Codes ==
  { <<>>,
    <<Site(JAVA_LANG_CLASS, "getDeclaredConstructor", AbsClass("A"), AbsNone, AbsNone, NoParams),
      Site(JAVA_LANG_CLASS, "getField", AbsClass("B"), AbsString("x"), AbsNone, NoParams)>>,
    <<Site(JAVA_LANG_CLASS, "getConstructor", AbsClass("B"), AbsNone, AbsNone, SomeParams(<<>>)),
      Site(ATOMIC_REF_FIELD_UPDATER, "newUpdater", AbsClass("A"), AbsClass("Obj"), AbsString("y"), NoParams),
      Site(JAVA_LANG_CLASS, "getMethod", AbsObj("OBJECT", "D", Null), AbsString("doThing"), AbsNone, NoParams),
      Site(JAVA_LANG_CLASS, "getDeclaredField", AbsClass("D"), AbsNone, AbsNone, NoParams),
      Site(JAVA_LANG_CLASS, "forName", AbsClass("D"), AbsString("x"), AbsNone, NoParams)>> }

Switches ==
  { [apk_dir |-> TRUE, xml |-> TRUE, native |-> TRUE],
    [apk_dir |-> TRUE, xml |-> FALSE, native |-> TRUE],
    [apk_dir |-> TRUE, xml |-> TRUE, native |-> FALSE],
    [apk_dir |-> FALSE, xml |-> TRUE, native |-> TRUE] }

Config(sw, pk, an, cm, km, pr, mf, ly, nc, code, sd) ==
  [apk_dir |-> sw.apk_dir,
   compute_xml_reachability |-> sw.xml,
   analyze_native_lib_reachability |-> sw.native,
   keep_packages |-> pk,
   no_optimizations_anno |-> {},
   keep_annotations |-> an,
   keep_class_members |-> cm,
   keep_methods |-> km,
   prune_unexported_components |-> pr,
   manifest |-> mf,
   layout |-> ly,
   native_classes |-> nc,
   code |-> code,
   json_serde_supercls |-> sd]

Configs ==
  { Config(sw, pk, kp.an, kp.cm, kp.km, pr, mf, ly, kp.nc, code, kp.sd) :
      sw \in Switches,
      pk \in {<<>>, <<<<"p", "/">>>>},
      kp \in { [an |-> {}, cm |-> <<>>, km |-> {}, nc |-> {}, sd |-> {}],
               [an |-> {"Keep", "Zz", "View"}, cm |-> <<<<"q", "/", "B", " ", "z">>>>,
                km |-> {"doThing"}, nc |-> {"D", "E", "Zz"}, sd |-> {"A", "Zz"}] },
      pr \in {{}, {"activity", "activity-alias"}, {"service"}},
      mf \in Manifests,
      ly \in Layouts,
      code \in Codes }

\* D extends Obj, or D extends B.
MainWorlds == {BaseWorld, [BaseWorld EXCEPT !.super["D"] = "B"]}

(***************************************************************************)
(* Spec: init_reachable_classes, each run as a whole.                      *)
(***************************************************************************)
MaxOps == 2

Init ==
  /\ world \in MainWorlds
  /\ cfg \in Configs
  /\ rs = FreshAll
  /\ walk = IdleWalk
  /\ touched = {}
  /\ visited = {}
  /\ pre = FreshAll
  /\ pc = IdlePc

\* A run that throws ends the program.
InitReachable ==
  /\ pc.n < MaxOps
  /\ pc.op \notin {"threw", "resetting"}
  /\ rs' = init_reachable_classes(rs, cfg)
  /\ pre' = rs
  /\ pc' = [pc EXCEPT !.op = IF manifest_throws(cfg) THEN "threw" ELSE "init",
                      !.n = @ + 1]
  /\ UNCHANGED <<world, cfg, walk, touched, visited>>

Next == InitReachable

Spec == Init /\ [][Next]_vars

(***************************************************************************)
(* SpecRecompute: init_reachable_classes and                               *)
(* recompute_reachable_from_xml_layouts, the latter as the writes of its   *)
(* parallel reset tasks, their join and the layout seeder.                 *)
(***************************************************************************)
\* Configurations with a package whose manifest and layouts are read and a
\* valid, non-empty prune set, on methods without reflective calls.
RecomputeConfigs ==
  {c \in Configs :
     /\ c.apk_dir /\ c.compute_xml_reachability /\ c.analyze_native_lib_reachability
     /\ c.prune_unexported_components # {}
     /\ ~prune_throws(c.prune_unexported_components)
     /\ c.code = <<>>}

InitRecompute ==
  /\ world \in MainWorlds
  /\ cfg \in RecomputeConfigs
  /\ rs = FreshAll
  /\ walk = IdleWalk
  /\ touched = {}
  /\ visited = {}
  /\ pre = FreshAll
  /\ pc = IdlePc

\* recompute_reachable_from_xml_layouts, reset pass: the task of some class
\* of the scope clears the flag on the next element it visits.  The tasks
\* run in parallel, so their writes interleave in any order; the first write
\* begins the call.
ResetWrite ==
  /\ pc.n < MaxOps
  /\ pc.op # "threw"
  /\ LET w == IF pc.op = "resetting" THEN walk ELSE TasksAtStart IN
     \E cls \in Scope :
       /\ w.pos[cls] <= Len(reset_task(cls))
       /\ rs' = reset_element(rs, reset_task(cls)[w.pos[cls]])
       /\ walk' = [w EXCEPT !.pos[cls] = @ + 1]
  /\ pre' = IF pc.op = "resetting" THEN pre ELSE rs
  /\ pc' = [pc EXCEPT !.op = "resetting"]
  /\ UNCHANGED <<world, cfg, touched, visited>>

\* recompute_reachable_from_xml_layouts after the tasks have been joined:
\* the layout seeder runs on the layouts of the package, which may have been
\* rewritten since the last run.
RecomputeLayouts ==
  /\ pc.op = "resetting"
  /\ \A cls \in Scope : walk.pos[cls] > Len(reset_task(cls))
  /\ \E ly \in Layouts :
       /\ cfg' = [cfg EXCEPT !.layout = ly]
       /\ rs' = analyze_reachable_from_xml_layouts(rs, ly)
  /\ walk' = IdleWalk
  /\ pc' = [pc EXCEPT !.op = "recompute", !.n = @ + 1]
  /\ UNCHANGED <<world, touched, visited, pre>>

NextRecompute == InitReachable \/ ResetWrite \/ RecomputeLayouts

SpecRecompute == InitRecompute /\ [][NextRecompute]_vars

(***************************************************************************)
(* Properties of the entry points (Spec, SpecRecompute).                   *)
(***************************************************************************)
\* C1: after init_reachable_classes, every declared member of a class that
\* is referenced_by_string is referenced_by_string too.
C1_StringClosure ==
  pc.op = "init" =>
    \A c \in Classes :
      rs[c].by_string => \A m \in DeclaredMembers(c) : rs[m].by_string

\* C3: every declared constructor of a class marked as a manifest root has
\* keep-reason Manifest, and the class's keep_count has been incremented,
\* whatever else the reflection scanner and the serializable chain root.
C3_ManifestCtors ==
  \A c \in Classes :
    rs[c].root = "Manifest" =>
      /\ rs[c].keep_count >= 1
      /\ \A m \in get_ctors(c) : rs[m].root = "Manifest"

\* A is a manifest root whose constructors are also the target of
\* getDeclaredConstructor and of the serializable chain (B implements the
\* interface and extends A); the reflection scanner has run (A.x).
C3_Witness ==
  /\ pc.op = "init"
  /\ rs["A"].root = "Manifest"
  /\ rs["A.init0"].root = "Manifest"
  /\ rs["A.init1"].root = "Manifest"
  /\ rs["A.x"].root = "Reflection"
  /\ \E i \in 1..Len(cfg.code) :
       /\ cfg.code[i].callee_name = "getDeclaredConstructor"
       /\ cfg.code[i].src[1] = AbsClass("A")
  /\ "B" \in get_all_implementors("Ser")
  /\ world.super["B"] = "A"

XmlSet(r) == {e \in Elements : r[e].by_xml}

\* C6: after recompute_reachable_from_xml_layouts the elements with
\* referenced_by_xml are exactly those a fresh run of the layout seeder on
\* the current inputs marks from an all-clear state, and no other flag of
\* any element has changed.
C6_Recomputable ==
  pc.op = "recompute" =>
    /\ XmlSet(rs) = XmlSet(analyze_reachable_from_xml_layouts(FreshAll, cfg.layout))
    /\ \A e \in Elements : [rs[e] EXCEPT !.by_xml = pre[e].by_xml] = pre[e]

\* The flags the claim lists never go from set to unset on element e, and
\* its keep_count never decreases.
Sticky(e) ==
  /\ rs[e].by_type => rs'[e].by_type
  /\ rs[e].by_string => rs'[e].by_string
  /\ rs[e].is_serde => rs'[e].is_serde
  /\ rs[e].root # NoReason => rs'[e].root # NoReason
  /\ rs'[e].keep_count >= rs[e].keep_count

\* C10 as stated: referenced_by_resource_xml is the only flag any seeder
\* operation clears.
C10_Original ==
  [][\A e \in Elements : Sticky(e) /\ (rs[e].allow_obf => rs'[e].allow_obf)]_vars

\* C10 amended: referenced_by_resource_xml and allow_obfuscation are the
\* only flags the seeder clears, the first only in
\* recompute_reachable_from_xml_layouts and the second only in
\* init_reachable_classes; by_type, by_string, is_serde and root never go
\* from set to unset and keep_count never decreases.
C10_StickyFlags ==
  [][\A e \in Elements :
       /\ Sticky(e)
       /\ (rs[e].by_xml /\ ~rs'[e].by_xml) => pc'.op = "resetting"
       /\ (rs[e].allow_obf /\ ~rs'[e].allow_obf) => pc'.op = "init"]_vars

\* A recompute has cleared referenced_by_xml on an element that keeps its
\* other marks, after an init that cleared allow_obfuscation somewhere.
C10_Witness ==
  /\ pc.op = "recompute"
  /\ \E e \in Elements :
       /\ pre[e].by_xml /\ ~rs[e].by_xml
       /\ rs[e].by_string
       /\ rs[e].root # NoReason
  /\ \E e \in Elements : ~rs[e].allow_obf /\ rs[e].keep_count >= 1

\* The state of element e without its keep_count.
Flags(s) == [s EXCEPT !.keep_count = 0]

\* C11: a second run of init_reachable_classes directly after a first one,
\* on the same scope, configuration and inputs, leaves every boolean flag and
\* the keep-reason of every element as the first run left them; keep_count is
\* the only field that may differ, and it does not decrease.
C11_SecondRunSameFlags ==
  [][(pc.op = "init" /\ pc.n = 1 /\ pc'.op = "init") =>
       \A e \in Elements :
         /\ Flags(rs'[e]) = Flags(rs[e])
         /\ rs'[e].keep_count >= rs[e].keep_count]_vars

\* Two runs in a row on a configuration that roots manifest classes, prunes
\* an activity, roots by reflection and marks serde classes: the flags are
\* those of the single run and a keep_count has grown.
C11_Witness ==
  /\ pc.op = "init" /\ pc.n = 2
  /\ pre = init_reachable_classes(FreshAll, cfg)
  /\ \E e \in Elements : rs[e].keep_count > pre[e].keep_count
  /\ \E e \in Elements : rs[e].root = "Manifest"
  /\ \E e \in Elements : rs[e].root = "Reflection"
  /\ \E e \in Elements : rs[e].is_serde
  /\ \E e \in Elements : ~rs[e].allow_obf /\ rs[e].root = NoReason
  /\ \A e \in Elements : Flags(rs[e]) = Flags(pre[e])

(***************************************************************************)
(* SpecManifest: analyze_reachable_from_manifest, one tag per step.        *)
(***************************************************************************)
MaxTags == 3

TagSpace ==
  {Tag(k, c, x, f, <<>>) :
     k \in {"Activity", "ActivityAlias"}, c \in {"A", "Zz"},
     x \in BOOLEAN, f \in BOOLEAN}
  \cup
  {Tag(k, c, x, FALSE, <<>>) :
     k \in {"Receiver", "Service"}, c \in {"A", "Zz"}, x \in BOOLEAN}
  \cup
  {Tag("Provider", c, FALSE, FALSE, a) :
     c \in {"B", "Zz"}, a \in {<<>>, <<"B", "D">>, <<"Zz", "A">>}}

ManifestConfigs ==
  {[c EXCEPT !.manifest = ManifestInfo(apps, <<"D">>, <<>>),
             !.prune_unexported_components = pr] :
     c \in {Config([apk_dir |-> TRUE, xml |-> TRUE, native |-> TRUE],
                   <<>>, {}, <<>>, {}, {}, ManifestInfo(<<>>, <<>>, <<>>),
                   Layout({}, {}), {}, <<>>, {})},
     apps \in {<<>>, <<"A">>, <<"Zz">>},
     pr \in SUBSET {"activity", "activity-alias"} \cup {{"activity", "service"}}}

InitManifest ==
  /\ world = BaseWorld
  /\ cfg \in ManifestConfigs
  /\ rs = FreshAll
  /\ walk = IdleWalk
  /\ touched = {}
  /\ visited = {}
  /\ pre = FreshAll
  /\ pc = IdlePc

\* The application_classes and instrumentation_classes loops.
ManifestAppClasses ==
  /\ pc.op = "none"
  /\ ~prune_throws(cfg.prune_unexported_components)
  /\ rs' = manifest_app_classes(rs, cfg.manifest)
  /\ pre' = rs
  /\ pc' = [pc EXCEPT !.op = "apps"]
  /\ UNCHANGED <<world, cfg, walk, touched, visited>>

\* One iteration of the component_tags loop, on the next tag of the manifest.
ManifestTag ==
  /\ pc.op \in {"apps", "tag"}
  /\ pc.i < MaxTags
  /\ \E t \in TagSpace :
       /\ rs' = manifest_tag(rs, t, prune_unexported_components(cfg.prune_unexported_components))
       /\ pc' = [pc EXCEPT !.op = "tag", !.i = @ + 1, !.tag = t]
  /\ pre' = rs
  /\ UNCHANGED <<world, cfg, walk, touched, visited>>

\* The conversion of the prune strings throws before anything is marked.
ManifestThrows ==
  /\ pc.op = "none"
  /\ prune_throws(cfg.prune_unexported_components)
  /\ rs' = analyze_reachable_from_manifest(rs, cfg.manifest, cfg.prune_unexported_components)
  /\ pre' = rs
  /\ pc' = [pc EXCEPT !.op = "threw"]
  /\ UNCHANGED <<world, cfg, walk, touched, visited>>

NextManifest == ManifestAppClasses \/ ManifestTag \/ ManifestThrows

SpecManifest == InitManifest /\ [][NextManifest]_vars

\* The configured prune strings name the component kind.
Pruned(kind, strs) ==
  \/ kind = "Activity" /\ "activity" \in strs
  \/ kind = "ActivityAlias" /\ "activity-alias" \in strs

\* The step processes a component tag of one of the given kinds.
TagStep(kinds) == pc'.op = "tag" /\ pc'.i = pc.i + 1 /\ pc'.tag.tag \in kinds

\* C2: an Activity or ActivityAlias tag that is exported, has intent filters
\* or whose kind is not in the prune set manifest-roots its class; any other
\* leaves the root flag of the class and of its constructors as it was,
\* increments the class's keep_count and clears its allow_obfuscation bit.
C2_ActivityPolicy ==
  [][TagStep({"Activity", "ActivityAlias"}) =>
       LET t == pc'.tag
           c == maybe_class_from_string(t.classname)
       IN c # Null =>
            IF \/ t.is_exported
               \/ t.has_intent_filters
               \/ ~Pruned(t.tag, cfg.prune_unexported_components)
              THEN /\ rs'[c].root = "Manifest"
                   /\ rs'[c].keep_count = rs[c].keep_count + 1
                   /\ \A m \in get_ctors(c) : rs'[m].root = "Manifest"
              ELSE /\ rs'[c].root = rs[c].root
                   /\ \A m \in get_ctors(c) : rs'[m] = rs[m]
                   /\ rs'[c].keep_count = rs[c].keep_count + 1
                   /\ rs'[c].keep_count >= 1
                   /\ ~rs'[c].allow_obf]_vars

\* The pruned activity of the manifest test: not rooted, kept, name pinned.
C2_Witness ==
  /\ pc.op = "tag"
  /\ pc.tag = Tag("Activity", "A", FALSE, FALSE, <<>>)
  /\ "activity" \in cfg.prune_unexported_components
  /\ rs["A"].root = NoReason
  /\ rs["A.init0"].root = NoReason
  /\ rs["A"].keep_count >= 1
  /\ ~rs["A"].allow_obf

\* The names a tag hands to mark_manifest_root.
RootedNames(t) ==
  <<t.classname>> \o (IF t.tag = "Provider" THEN t.authority_classes ELSE <<>>)

Occurrences(names, c) ==
  Cardinality({i \in 1..Len(names) : maybe_class_from_string(names[i]) = c})

\* C4: a Receiver, Service or Provider tag manifest-roots its class, and a
\* Provider tag every authority class as well, whatever is_exported,
\* has_intent_filters and the prune set are: the class becomes a Manifest
\* root, its keep_count grows by one per mention, its constructors become
\* Manifest roots; nothing else changes, and a tag of any kind whose names
\* resolve to no class changes no state.
C4_AlwaysRooted ==
  [][/\ TagStep({"Receiver", "Service", "Provider"}) =>
          LET names == RootedNames(pc'.tag) IN
          \A e \in Elements :
            rs'[e] =
              IF e \in Classes /\ Occurrences(names, e) > 0
                THEN [rs[e] EXCEPT !.root = "Manifest",
                                   !.keep_count = @ + Occurrences(names, e)]
              ELSE IF e \in Members /\ is_init(e) /\ e \in get_dmethods(MemberTable[e].cls)
                      /\ Occurrences(names, MemberTable[e].cls) > 0
                THEN [rs[e] EXCEPT !.root = "Manifest"]
              ELSE rs[e]
     /\ (/\ TagStep({"Activity", "ActivityAlias", "Receiver", "Service", "Provider"})
         /\ \A c \in Classes : Occurrences(RootedNames(pc'.tag), c) = 0)
          => rs' = rs]_vars

\* A Provider whose own name is dangling and whose authority list names A.
C4_Witness ==
  /\ pc.op = "tag"
  /\ pc.tag = Tag("Provider", "Zz", FALSE, FALSE, <<"Zz", "A">>)
  /\ "activity" \in cfg.prune_unexported_components
  /\ rs["A"].root = "Manifest"
  /\ rs["A"].keep_count >= 1
  /\ rs["A.init0"].root = "Manifest"
  /\ rs["A.init1"].root = "Manifest"

(***************************************************************************)
(* SpecPerm: the orchestrator's steps, each run once, in any order.        *)
(***************************************************************************)
Steps ==
  {"annotations", "keeps", "manifest", "layouts", "native_libs", "reflection",
   "packages", "serializable", "native_methods", "serde"}

PermConfigs ==
  {c \in Configs :
     /\ c.apk_dir /\ c.compute_xml_reachability /\ c.analyze_native_lib_reachability
     /\ c.keep_methods # {}
     /\ c.prune_unexported_components # {}
     /\ ~prune_throws(c.prune_unexported_components)
     /\ c.layout = Layout({"E", "D"}, {"doThing"})}

InitPerm ==
  /\ world \in MainWorlds
  /\ cfg \in PermConfigs
  /\ rs = FreshAll
  /\ walk = IdleWalk
  /\ touched = {}
  /\ visited = {}
  /\ pre = FreshAll
  /\ pc = IdlePc

RunStep(s, r) ==
  /\ s \notin pc.done
  /\ rs' = r
  /\ pc' = [pc EXCEPT !.op = "step", !.done = @ \cup {s}]
  /\ UNCHANGED <<world, cfg, walk, touched, visited, pre>>

DoAnnotations == RunStep("annotations", step_annotations(rs, cfg))

DoKeeps == RunStep("keeps", step_keeps(rs, cfg))

DoManifest == RunStep("manifest", step_manifest(rs, cfg))

DoLayouts == RunStep("layouts", step_layouts(rs, cfg))

DoNativeLibs == RunStep("native_libs", step_native_libs(rs, cfg))

DoReflection == RunStep("reflection", step_reflection(rs, cfg))

DoPackages == RunStep("packages", step_packages(rs, cfg))

DoSerializable == RunStep("serializable", step_serializable(rs, cfg))

DoNativeMethods == RunStep("native_methods", step_native_methods(rs, cfg))

DoSerde == RunStep("serde", step_serde(rs, cfg))

NextPerm ==
  \/ DoAnnotations \/ DoKeeps \/ DoManifest \/ DoLayouts \/ DoNativeLibs
  \/ DoReflection \/ DoPackages \/ DoSerializable \/ DoNativeMethods \/ DoSerde

SpecPerm == InitPerm /\ [][NextPerm]_vars

\* C9: whatever the order in which the orchestrator's steps run, once all
\* have run the state of every element (every flag, keep_count,
\* allow_obfuscation and the recorded keep-reason) is the state the
\* orchestrator's own order produces.
C9_Commutative ==
  pc.done = Steps => rs = init_reachable_classes(FreshAll, cfg)

\* All steps have run on a program where A.init0 is rooted by the manifest
\* seeder and by the serializable chain, each with its own reason when run
\* alone, and B.x by the reflection scanner: A.init0 carries Manifest.
C9_Witness ==
  /\ pc.done = Steps
  /\ step_manifest(FreshAll, cfg)["A.init0"].root = "Manifest"
  /\ step_serializable(FreshAll, cfg)["A.init0"].root = "Serializable"
  /\ rs["A"].root = "Manifest"
  /\ rs["A.init0"].root = "Manifest"
  /\ rs["E"].by_xml

(***************************************************************************)
(* SpecOnclick: mark_onclick_attributes_reachable on a fresh state.        *)
(***************************************************************************)
\* A under the context type directly, through the external E, or not at all;
\* D outside the subtree or under B; A external or not.
OnclickWorlds ==
  {[super |-> [BaseSuper EXCEPT !["A"] = sa, !["D"] = sd, !["E"] = se],
    external |-> [BaseExternal EXCEPT !["A"] = xa]] :
      sa \in {"Ctx", "E"},
      sd \in {"Obj", "B", "E"},
      se \in {"Obj", "Ctx"},
      xa \in BOOLEAN}

OnclickNames == SUBSET {"doThing", "<init>", "nat"}

InitOnclick ==
  /\ world \in OnclickWorlds
  /\ \E names \in OnclickNames : cfg = [layout |-> Layout({}, names)]
  /\ rs = FreshAll
  /\ walk = IdleWalk
  /\ touched = {}
  /\ visited = {}
  /\ pre = FreshAll
  /\ pc = IdlePc

Onclick ==
  /\ pc.op = "none"
  /\ rs' = mark_onclick_attributes_reachable(rs, cfg.layout.onclick)
  /\ pre' = rs
  /\ pc' = [pc EXCEPT !.op = "onclick", !.n = @ + 1]
  /\ UNCHANGED <<world, cfg, walk, touched, visited>>

NextOnclick == Onclick

SpecOnclick == InitOnclick /\ [][NextOnclick]_vars

\* A click handler: a declared virtual method of a non-external class that
\* has the context type among its proper ancestors, taking exactly one
\* parameter of the view type, its name among the bound names.
IsClickHandler(m, names) ==
  LET c == MemberTable[m].cls IN
  /\ MemberTable[m].kind = "vmethod"
  /\ ~world.external[c]
  /\ "Ctx" \in SuperChain(world.super[c], Cardinality(Classes))
  /\ MemberTable[m].args = <<"View">>
  /\ MemberTable[m].name \in names

\* C12: after the click-handler scan a method is referenced_by_xml exactly
\* when it is a click handler for the bound names; methods of the same name
\* with another parameter list, direct methods and methods of classes outside
\* the subtree stay unmarked, as does everything when no name is bound, and
\* no other flag of any element changes.
C12_ClickHandlers ==
  pc.op = "onclick" =>
    /\ \A m \in Members : rs[m].by_xml <=> IsClickHandler(m, cfg.layout.onclick)
    /\ \A e \in Elements : [rs[e] EXCEPT !.by_xml = FALSE] = FreshState
    /\ cfg.layout.onclick = {} => rs = FreshAll

\* A.doThing(View) is marked while its sibling doThing(String), the direct
\* method <init>(View) of A whose name is bound too, and doThing(View) of D,
\* which is outside the subtree, are not.
C12_Witness ==
  /\ pc.op = "onclick"
  /\ cfg.layout.onclick = {"doThing", "<init>"}
  /\ rs["A.doThing"].by_xml
  /\ ~rs["A.doThingS"].by_xml
  /\ ~rs["A.init1"].by_xml
  /\ ~rs["D.doThing"].by_xml
  /\ ~IsAncestor("Ctx", "D")

(***************************************************************************)
(* SpecKeepMembers: keep_class_members on a fresh state.                   *)
(***************************************************************************)
MaxEntries == 2

\* Entries of the keep_class_members list: "q/B x", "q/B z", "p/A x",
\* "p/D x" (x is an instance field of D) and "e/E x" (E is not in the scope).
KeepEntries ==
  { <<"q", "/", "B", " ", "x">>,
    <<"q", "/", "B", " ", "z">>,
    <<"p", "/", "A", " ", "x">>,
    <<"p", "/", "D", " ", "x">>,
    <<"e", "/", "E", " ", "x">> }

KeepLists == UNION {[1..n -> KeepEntries] : n \in 0..MaxEntries}

KeepWorlds ==
  MainWorlds \cup {[BaseWorld EXCEPT !.external["A"] = TRUE]}

InitKeepMembers ==
  /\ world \in KeepWorlds
  /\ \E l \in KeepLists : cfg = [keep_class_members |-> l]
  /\ rs = FreshAll
  /\ walk = IdleWalk
  /\ touched = {}
  /\ visited = {}
  /\ pre = FreshAll
  /\ pc = IdlePc

KeepClassMembers ==
  /\ pc.op = "none"
  /\ rs' = keep_class_members(rs, cfg.keep_class_members)
  /\ pre' = rs
  /\ pc' = [pc EXCEPT !.op = "keep_class_members", !.n = @ + 1]
  /\ UNCHANGED <<world, cfg, walk, touched, visited>>

NextKeepMembers == KeepClassMembers

SpecKeepMembers == InitKeepMembers /\ [][NextKeepMembers]_vars

\* Entry names class c and, after the class name, its static field f.
EntryNames(entry, c, f) ==
  LET pos == find(entry, ClassStr[c]) IN
  /\ pos # 0
  /\ find(substr(entry, pos + Len(ClassStr[c])), NameStr(MemberTable[f].name)) # 0

\* C13: after keep_class_members, for every class of the scope and every
\* entry of the list, a static field of the class that the entry names after
\* the class name is marked by_type, and so is the class.
C13_EveryEntry ==
  pc.op = "keep_class_members" =>
    \A c \in Scope : \A i \in 1..Len(cfg.keep_class_members) :
      \A f \in get_sfields(c) :
        EntryNames(cfg.keep_class_members[i], c, f) =>
          rs[f].by_type /\ rs[c].by_type

(***************************************************************************)
(* SpecReflect: the instruction loop of analyze_reflection, one invoke per *)
(* step.                                                                   *)
(***************************************************************************)
MaxSites == 2

Callees ==
  { <<JAVA_LANG_CLASS, "getField">>,
    <<JAVA_LANG_CLASS, "getDeclaredMethod">>,
    <<JAVA_LANG_CLASS, "getConstructor">>,
    <<JAVA_LANG_CLASS, "getDeclaredConstructors">>,
    <<JAVA_LANG_CLASS, "forName">>,
    <<ATOMIC_INT_FIELD_UPDATER, "newUpdater">>,
    <<ATOMIC_REF_FIELD_UPDATER, "newUpdater">> }

Sites ==
  { Site(ce[1], ce[2], s0, s1, s2, ps) :
      ce \in Callees,
      s0 \in {AbsNone, AbsClass("A"), AbsObj("OBJECT", "A", Null)},
      s1 \in {AbsNone, AbsString("x"), AbsString("doThing"), AbsClass("A")},
      s2 \in {AbsNone, AbsString("y")},
      ps \in {NoParams, SomeParams(<<>>)} }

InitReflect ==
  /\ world = BaseWorld
  /\ cfg = [site |-> Site(JAVA_LANG_CLASS, "forName", AbsNone, AbsNone, AbsNone, NoParams)]
  /\ rs = FreshAll
  /\ walk = IdleWalk
  /\ touched = {}
  /\ visited = {}
  /\ pre = FreshAll
  /\ pc = IdlePc

ReflectionSite ==
  /\ pc.n < MaxSites
  /\ \E insn \in Sites :
       /\ cfg' = [site |-> insn]
       /\ rs' = reflection_site(rs, insn)
  /\ pre' = rs
  /\ pc' = [pc EXCEPT !.op = "reflect", !.n = @ + 1]
  /\ UNCHANGED <<world, walk, touched, visited>>

NextReflect == ReflectionSite

SpecReflect == InitReflect /\ [][NextReflect]_vars

IsCtorKind(t) == t \in {"GET_CONSTRUCTOR", "GET_DECLARED_CONSTRUCTOR"}

\* The register that holds the member name of a site of type t.
NameRegister(insn, t) == IF t = "REF_UPDATER" THEN insn.src[3] ELSE insn.src[2]

\* The receiver of the site is not a CLASS object, or the site is not of a
\* constructor kind and its name register is not a STRING object.
Imprecise(insn) ==
  LET t == refls(insn.callee_class, insn.callee_name) IN
  \/ insn.src[1].obj_kind # "CLASS"
  \/ ~IsCtorKind(t) /\ NameRegister(insn, t).obj_kind # "STRING"

\* C14: a reflective call site with an imprecise receiver or name changes
\* no flag, keep-reason or keep_count of any element; a site of a constructor
\* kind acts on the name <init> whatever the other registers hold.
C14_ImpreciseIgnored ==
  pc.op = "reflect" =>
    LET insn == cfg.site
        t == refls(insn.callee_class, insn.callee_name) IN
    /\ Imprecise(insn) => rs = pre
    /\ (IsCtorKind(t) /\ insn.src[1].obj_kind = "CLASS") =>
         rs = blacklist_method(pre, insn.src[1].dex_type, "<init>", insn.params,
                               t = "GET_DECLARED_CONSTRUCTOR")

\* After a site that rooted A.x, an AtomicReferenceFieldUpdater.newUpdater
\* site with a CLASS receiver and a STRING in src(1) but nothing in its name
\* register src(2) has been processed and has changed nothing.
C14_Witness ==
  /\ pc.op = "reflect" /\ pc.n = 2
  /\ cfg.site.callee_class = ATOMIC_REF_FIELD_UPDATER
  /\ cfg.site.src[1] = AbsClass("A")
  /\ cfg.site.src[2] = AbsString("x")
  /\ cfg.site.src[3] = AbsNone
  /\ pre["A.x"].root = "Reflection"
  /\ rs = pre

(***************************************************************************)
(* SpecSerializable: analyze_serializable as one step.                     *)
(***************************************************************************)
\* B declares the serializable interface.  Its superclass is A, the external
\* E or a type without a class; D is unrelated or extends A or B; A and B
\* are external or not.
SerWorlds ==
  {[super |-> [BaseSuper EXCEPT !["A"] = sa, !["B"] = sb, !["D"] = sd],
    external |-> [BaseExternal EXCEPT !["A"] = xa, !["B"] = xb]] :
      sa \in {"Ctx", "Obj"},
      sb \in {"A", "E", "Obj"},
      sd \in {"Obj", "A", "B"},
      xa \in BOOLEAN,
      xb \in BOOLEAN}

InitSerializable ==
  /\ world \in SerWorlds
  /\ cfg = NoCfg
  /\ rs \in {FreshAll, mark_manifest_root(FreshAll, "A")}
  /\ walk = IdleWalk
  /\ touched = {}
  /\ visited = {}
  /\ pre = rs
  /\ pc = IdlePc

AnalyzeSerializable ==
  /\ pc.op = "none"
  /\ rs' = analyze_serializable(rs)
  /\ pre' = rs
  /\ pc' = [pc EXCEPT !.op = "serializable", !.n = @ + 1]
  /\ UNCHANGED <<world, cfg, walk, touched, visited>>

NextSerializable == AnalyzeSerializable

SpecSerializable == InitSerializable /\ [][NextSerializable]_vars

\* Class c declares the serializable interface or has a superclass that does.
Implements(c) ==
  \E a \in SuperChain(c, Cardinality(Classes)) : "Ser" \in Interfaces[a]

\* m is a zero-argument constructor of a known, non-external class that does
\* not implement the interface and is the direct superclass of a class of
\* the scope that does.
IsSerializableSuperCtor(m) ==
  LET S == MemberTable[m].cls IN
  /\ MemberTable[m].kind = "dmethod"
  /\ MemberTable[m].name = "<init>"
  /\ MemberTable[m].args = <<>>
  /\ ~world.external[S]
  /\ ~Implements(S)
  /\ \E c \in Classes :
       ~world.external[c] /\ Implements(c) /\ world.super[c] = S

\* C15: the serializable-chain seeder roots with reason Serializable exactly
\* the zero-argument constructors of the non-external, non-serializable
\* direct superclasses of the implementors; constructors with parameters and
\* constructors of external or serializable superclasses are not rooted by
\* it, and nothing else changes (an element rooted before keeps its reason).
C15_SerializableCtors ==
  pc.op = "serializable" =>
    /\ \A e \in Elements : [rs[e] EXCEPT !.root = pre[e].root] = pre[e]
    /\ \A e \in Elements : pre[e].root # NoReason => rs[e].root = pre[e].root
    /\ \A e \in Elements :
         pre[e].root = NoReason =>
           (rs[e].root = "Serializable" <=> e \in Members /\ IsSerializableSuperCtor(e))
    /\ \A e \in Elements : rs[e].root \in {pre[e].root, "Serializable"}

\* B implements the interface and extends the non-external A: A's
\* zero-argument constructor is rooted and its one-argument constructor is
\* not; D implements through B, so B's constructor is not rooted.
C15_Witness ==
  /\ pc.op = "serializable"
  /\ pre = FreshAll
  /\ world.super["B"] = "A" /\ world.super["D"] = "B"
  /\ ~world.external["A"] /\ ~world.external["B"]
  /\ rs["A.init0"].root = "Serializable"
  /\ rs["A.init1"].root = NoReason
  /\ rs["B.init0"].root = NoReason

(***************************************************************************)
(* SpecPar: the XML-flag reset pass and the native-method pass run as one  *)
(* task per class of the scope.  A task updates one rstate at a time, as a *)
(* load of the element's state followed by a store of the changed state,   *)
(* and the tasks interleave freely.  The caller waits for the tasks; after *)
(* the reset pass it then runs the layout seeder, which completes          *)
(* recompute_reachable_from_xml_layouts.                                   *)
(***************************************************************************)
RECURSIVE native_writes(_)
\* mark_reachable_by_string on each method of the sequence: the owning class
\* when it is not external, then the method.
native_writes(meths) ==
  IF meths = <<>> THEN <<>>
  ELSE LET method == Head(meths)
           cls == type_class_internal(MemberTable[method].cls)
       IN (IF cls = Null THEN <<>> ELSE <<cls>>) \o <<method>>
            \o native_writes(Tail(meths))

\* The elements the native-method task of cls writes.
native_task(cls) ==
  native_writes(SeqOf({m \in get_dmethods(cls) : MemberTable[m].native})
                \o SeqOf({m \in get_vmethods(cls) : MemberTable[m].native}))

task_writes(pass, cls) ==
  IF pass = "reset" THEN reset_task(cls) ELSE native_task(cls)

task_update(pass, s) ==
  IF pass = "reset" THEN unset_referenced_by_resource_xml(s) ELSE ref_by_string(s)

\* States the passes may start from: nothing marked, or a manifest root and
\* a layout marked.
ParStates ==
  { FreshAll,
    analyze_reachable_from_xml_layouts(
      mark_manifest_root(FreshAll, "A"),
      Layout({"A", "D", "E"}, {"doThing"})) }

InitPar ==
  /\ world \in KeepWorlds
  /\ \E ly \in Layouts : cfg = [layout |-> ly]
  /\ rs \in ParStates
  /\ walk = TasksAtStart
  /\ touched = {}
  /\ visited = {}
  /\ pre = rs
  /\ \E pass \in {"reset", "native"} : pc = [IdlePc EXCEPT !.op = pass]

\* Task cls loads the rstate of the next element it updates.
TaskLoad ==
  \E cls \in Scope :
    /\ ~walk.loaded[cls]
    /\ walk.pos[cls] <= Len(task_writes(pc.op, cls))
    /\ walk' = [walk EXCEPT !.loaded[cls] = TRUE,
                            !.tmp[cls] = rs[task_writes(pc.op, cls)[walk.pos[cls]]]]
    /\ UNCHANGED <<world, cfg, rs, touched, visited, pre, pc>>

\* Task cls stores the updated rstate and moves to its next element.
TaskStore ==
  \E cls \in Scope :
    /\ walk.loaded[cls]
    /\ LET e == task_writes(pc.op, cls)[walk.pos[cls]] IN
         /\ rs' = [rs EXCEPT ![e] = task_update(pc.op, walk.tmp[cls])]
         /\ touched' = touched \cup {<<cls, e>>}
    /\ walk' = [walk EXCEPT !.loaded[cls] = FALSE, !.tmp[cls] = FreshState,
                            !.pos[cls] = @ + 1]
    /\ UNCHANGED <<world, cfg, visited, pre, pc>>

\* Every task has written all its elements.
AllTasksDone ==
  \A cls \in Scope :
    ~walk.loaded[cls] /\ walk.pos[cls] > Len(task_writes(pc.op, cls))

\* The tasks of the reset pass have been joined: the layout seeder runs.
LayoutsAfterReset ==
  /\ pc.op = "reset"
  /\ pc.i = 0
  /\ AllTasksDone
  /\ rs' = analyze_reachable_from_xml_layouts(rs, cfg.layout)
  /\ pc' = [pc EXCEPT !.i = 1]
  /\ UNCHANGED <<world, cfg, walk, touched, visited, pre>>

NextPar == TaskLoad \/ TaskStore \/ LayoutsAfterReset

SpecPar == InitPar /\ [][NextPar]_vars

\* The result of the pass run sequentially.
Sequential(pass, r) ==
  IF pass = "reset" THEN reset_xml(r) ELSE recompute_classes_reachable_from_code(r)

\* C16: in both passes a task writes only the class it visits and that
\* class's declared members, no element is written by two tasks, and when
\* all tasks are done the state is that of the sequential run, whatever the
\* interleaving was.
C16_TasksDisjoint ==
  /\ \A w \in touched : w[2] \in {w[1]} \cup DeclaredMembers(w[1])
  /\ \A v, w \in touched : v[2] = w[2] => v[1] = w[1]
  /\ (AllTasksDone /\ pc.i = 0) => rs = Sequential(pc.op, pre)

\* Whatever the interleaving of the reset tasks was, the state after the
\* layout seeder is that of the call computed sequentially.
RecomputeXmlSequential ==
  (pc.op = "reset" /\ pc.i = 1) =>
    rs = recompute_reachable_from_xml_layouts(pre, cfg.layout)

\* A finished run of the reset pass in which the tasks of A, B and D have
\* all written and referenced_by_xml has been cleared on an element that had
\* it.
C16_Witness ==
  /\ pc.op = "reset"
  /\ pc.i = 0
  /\ AllTasksDone
  /\ {w[1] : w \in touched} = {"A", "B", "D"}
  /\ \E e \in Elements : pre[e].by_xml /\ ~rs[e].by_xml

====
